---- MODULE Spec2Model ----
(***************************************************************************)
(* Model of convert.py: the conversion of a folder of monthly Semantic     *)
(* Location History JSON files into activity.csv and visit.csv.            *)
(*                                                                         *)
(* JSON objects are functions from key strings to values.  JSON scalars    *)
(* (numbers, strings) are modelled by their text; Python's None by Null.   *)
(* A DataFrame is its sequence of rows (records keyed by column name)      *)
(* together with the sequence of their index labels.                       *)
(***************************************************************************)
EXTENDS Integers, Sequences, FiniteSets, TLC

VARIABLES
    files,          \* the monthly files' contents, in the order glob yields them in this run
    pos,            \* number of files main's loop has consumed
    activity_df,    \* main's accumulated activity frame
    visit_df,       \* main's accumulated visit frame
    pc,             \* "loop", "sort_visit", "done" or "exited"
    exit_status,    \* the process's exit status ("0" or "1") once it ended, Null before
    stderr,         \* the KeyError text print(e) reports, Null when none
    outdir,         \* the output directory of this run: file name -> csv lines
    earlier         \* what an earlier run on the same input directory saw and left:
                    \* <<[files, outdir, exit_status]>>, <<>> in the first run

vars == <<files, pos, activity_df, visit_df, pc, exit_status, stderr, outdir, earlier>>

----------------------------------------------------------------------------
(* Bounds of the explored inputs *)

\* files in a directory of the exhaustive family
MaxFiles == 2
\* records in a directory of the exhaustive family, over all its files
MaxRecords == 2
\* records in the base sequence of a file of the bulk family
BulkBase == 3
\* repetitions of the base sequence in a file of the bulk family
BulkRepeat == 6

----------------------------------------------------------------------------
(* Values *)

\* Python None
Null == "<None>"

\* a dict with no key
EmptyMap == [k \in {} |-> Null]

ACTIVITY_COLS == <<"timeline_type", "start_latitude", "start_longitude",
                   "end_latitude", "end_longitude", "start_time", "end_time",
                   "distance", "activity_type">>

VISIT_COLS == <<"timeline_type", "location_latitude", "location_longitude",
                "place_id", "address", "name", "start_time", "end_time">>

\* timestamp texts of the inputs, listed in ascending Python str order
TimeOrder == <<"2020-12-01T00:00:00Z", "2021-01-01T00:00:00Z", "2021-01-02T00:00:00Z">>

T1 == TimeOrder[1]
T2 == TimeOrder[2]
T3 == TimeOrder[3]

\* a < b on two str objects (the comparison sort_values makes on start_time)
StrLess(a, b) ==
    LET Rank(s) == CHOOSE i \in 1..Len(TimeOrder) : TimeOrder[i] = s
    IN  Rank(a) < Rank(b)

\* dict.get(k, None)
Get(m, k) == IF k \in DOMAIN m THEN m[k] ELSE Null

----------------------------------------------------------------------------
(* Record Classifier/Extractor *)

\* a raised KeyError; error is the text print(e) shows (the messages of the two
\* KeyErrors load_timeline_obj raises are abbreviated to one line)
KeyError(msg) == [ok |-> FALSE, error |-> msg]

\* a returned one-row frame
OneRow(r) == [ok |-> TRUE, row |-> r]

MsgMoreThanOneKey == "Key number in a timeline object is expected to be 1, but there are more than 1 key in the timeline object."
MsgUnexpectedKey == "Unexpected key exists in the timeline object. Please contact to the developer."

\* faulty variant: the sub-mappings are read with a default, like the leaves
load_activity_lenient(timeline_obj) ==
    LET activity == timeline_obj["activitySegment"]
        Sub(k) == IF k \in DOMAIN activity THEN activity[k] ELSE EmptyMap
    IN  OneRow([timeline_type   |-> "activity",
                start_latitude  |-> Get(Sub("startLocation"), "latitudeE7"),
                start_longitude |-> Get(Sub("startLocation"), "longitudeE7"),
                end_latitude    |-> Get(Sub("endLocation"), "latitudeE7"),
                end_longitude   |-> Get(Sub("endLocation"), "longitudeE7"),
                start_time      |-> Get(Sub("duration"), "startTimestamp"),
                end_time        |-> Get(Sub("duration"), "endTimestamp"),
                distance        |-> Get(activity, "distance"),
                activity_type   |-> Get(activity, "activityType")])

\* faulty variant: end_longitude is read from the start location
load_activity_wrong_lon(timeline_obj) ==
    LET activity == timeline_obj["activitySegment"]
    IN  IF "startLocation" \notin DOMAIN activity THEN KeyError("'startLocation'")
        ELSE IF "endLocation" \notin DOMAIN activity THEN KeyError("'endLocation'")
        ELSE IF "duration" \notin DOMAIN activity THEN KeyError("'duration'")
        ELSE OneRow([timeline_type   |-> "activity",
                     start_latitude  |-> Get(activity["startLocation"], "latitudeE7"),
                     start_longitude |-> Get(activity["startLocation"], "longitudeE7"),
                     end_latitude    |-> Get(activity["endLocation"], "latitudeE7"),
                     end_longitude   |-> Get(activity["startLocation"], "longitudeE7"),
                     start_time      |-> Get(activity["duration"], "startTimestamp"),
                     end_time        |-> Get(activity["duration"], "endTimestamp"),
                     distance        |-> Get(activity, "distance"),
                     activity_type   |-> Get(activity, "activityType")])

load_activity(timeline_obj) ==
    LET activity == timeline_obj["activitySegment"]
    IN  IF "startLocation" \notin DOMAIN activity THEN KeyError("'startLocation'")
        ELSE IF "endLocation" \notin DOMAIN activity THEN KeyError("'endLocation'")
        ELSE IF "duration" \notin DOMAIN activity THEN KeyError("'duration'")
        ELSE OneRow([timeline_type   |-> "activity",
                     start_latitude  |-> Get(activity["startLocation"], "latitudeE7"),
                     start_longitude |-> Get(activity["startLocation"], "longitudeE7"),
                     end_latitude    |-> Get(activity["endLocation"], "latitudeE7"),
                     end_longitude   |-> Get(activity["endLocation"], "longitudeE7"),
                     start_time      |-> Get(activity["duration"], "startTimestamp"),
                     end_time        |-> Get(activity["duration"], "endTimestamp"),
                     distance        |-> Get(activity, "distance"),
                     activity_type   |-> Get(activity, "activityType")])

\* faulty variant: name is read from the address key
load_visit_wrong_name(timeline_obj) ==
    LET visit == timeline_obj["placeVisit"]
    IN  IF "location" \notin DOMAIN visit THEN KeyError("'location'")
        ELSE IF "duration" \notin DOMAIN visit THEN KeyError("'duration'")
        ELSE LET location == visit["location"]
             IN  OneRow([timeline_type      |-> "visit",
                         location_latitude  |-> Get(location, "latitudeE7"),
                         location_longitude |-> Get(location, "longitudeE7"),
                         place_id           |-> Get(location, "placeId"),
                         address            |-> Get(location, "address"),
                         name               |-> Get(location, "address"),
                         start_time         |-> Get(visit["duration"], "startTimestamp"),
                         end_time           |-> Get(visit["duration"], "endTimestamp")])

load_visit(timeline_obj) ==
    LET visit == timeline_obj["placeVisit"]
    IN  IF "location" \notin DOMAIN visit THEN KeyError("'location'")
        ELSE IF "duration" \notin DOMAIN visit THEN KeyError("'duration'")
        ELSE LET location == visit["location"]
             IN  OneRow([timeline_type      |-> "visit",
                         location_latitude  |-> Get(location, "latitudeE7"),
                         location_longitude |-> Get(location, "longitudeE7"),
                         place_id           |-> Get(location, "placeId"),
                         address            |-> Get(location, "address"),
                         name               |-> Get(location, "name"),
                         start_time         |-> Get(visit["duration"], "startTimestamp"),
                         end_time           |-> Get(visit["duration"], "endTimestamp")])

\* faulty variant: the key count is not checked
load_timeline_obj_no_count(timeline_obj) ==
    IF "activitySegment" \in DOMAIN timeline_obj THEN load_activity(timeline_obj)
    ELSE IF "placeVisit" \in DOMAIN timeline_obj THEN load_visit(timeline_obj)
    ELSE KeyError(MsgUnexpectedKey)

\* The result is the row returned, or (ok = FALSE) the KeyError the handler
\* prints before sys.exit(1).
load_timeline_obj(timeline_obj) ==
    IF Cardinality(DOMAIN timeline_obj) > 1 THEN KeyError(MsgMoreThanOneKey)
    ELSE IF "activitySegment" \in DOMAIN timeline_obj THEN load_activity(timeline_obj)
    ELSE IF "placeVisit" \in DOMAIN timeline_obj THEN load_visit(timeline_obj)
    ELSE KeyError(MsgUnexpectedKey)

----------------------------------------------------------------------------
(* Frames *)

\* pd.DataFrame([], columns=...)
EmptyFrame == [index |-> <<>>, rows |-> <<>>]

\* pd.DataFrame([[...]], columns=...): one row, labelled 0
FrameOf(row) == [index |-> <<0>>, rows |-> <<row>>]

\* faulty variant: the new rows are put in front of the accumulated ones
concat_prepend(df, other) ==
    LET rows == other.rows \o df.rows
    IN  [index |-> [i \in 1..Len(rows) |-> i - 1], rows |-> rows]

\* pd.concat([df, other], axis=0, ignore_index=True)
concat(df, other) ==
    LET rows == df.rows \o other.rows
    IN  [index |-> [i \in 1..Len(rows) |-> i - 1], rows |-> rows]

\* df.reset_index(drop=True)
reset_index(df) == [index |-> [i \in 1..Len(df.rows) |-> i - 1], rows |-> df.rows]

\* faulty variant: a record load_timeline_obj cannot extract is skipped
RECURSIVE load_records_skip(_, _, _, _)
load_records_skip(timelineObjects, i, act, vis) ==
    IF i > Len(timelineObjects)
    THEN [ok |-> TRUE, activity |-> act, visit |-> vis]
    ELSE IF ~load_timeline_obj(timelineObjects[i]).ok
         THEN load_records_skip(timelineObjects, i + 1, act, vis)
    ELSE IF load_timeline_obj(timelineObjects[i]).row.timeline_type = "activity"
         THEN load_records_skip(timelineObjects, i + 1,
                  concat(act, FrameOf(load_timeline_obj(timelineObjects[i]).row)), vis)
    ELSE load_records_skip(timelineObjects, i + 1, act,
                  concat(vis, FrameOf(load_timeline_obj(timelineObjects[i]).row)))

\* the loop of load_monthly_json over location_history['timelineObjects'],
\* from element i on; it ends at the first element load_timeline_obj exits on
RECURSIVE load_records(_, _, _, _)
load_records(timelineObjects, i, act, vis) ==
    IF i > Len(timelineObjects)
    THEN [ok |-> TRUE, activity |-> act, visit |-> vis]
    ELSE LET r == load_timeline_obj(timelineObjects[i])
         IN  IF ~r.ok THEN r
             ELSE IF r.row.timeline_type = "activity"
                  THEN load_records(timelineObjects, i + 1, concat(act, FrameOf(r.row)), vis)
             ELSE IF r.row.timeline_type = "visit"
                  THEN load_records(timelineObjects, i + 1, act, concat(vis, FrameOf(r.row)))
             ELSE load_records(timelineObjects, i + 1, act, vis)

\* load_monthly_json on a file whose 'timelineObjects' is the given sequence
load_monthly_json(timelineObjects) ==
    load_records(timelineObjects, 1, EmptyFrame, EmptyFrame)

----------------------------------------------------------------------------
(* DataFrame.sort_values('start_time'): kind='quicksort', na_position='last'.
   pandas' nargsort sorts the positions of the non-null keys with numpy's
   argsort and puts the positions of the null keys after them.  On an object
   column numpy's argsort(kind='quicksort') is npy_aquicksort: an introsort
   over the array of positions, with insertion sort on ranges of at most
   SMALL_QUICKSORT + 1 elements and heapsort once the depth limit is used up.
   Positions are 1-based here. *)

SMALL_QUICKSORT == 16

\* INTP_SWAP(t[i], t[j])
Swap(t, i, j) == [t EXCEPT ![i] = t[j], ![j] = t[i]]

\* npy_get_msb: floor(log2(n)), 0 for n = 0
RECURSIVE npy_get_msb(_)
npy_get_msb(n) == IF n <= 1 THEN 0 ELSE 1 + npy_get_msb(n \div 2)

\* do { ++pi; } while (v[*pi] < vp): the position the scan from pi stops at
RECURSIVE ScanUp(_, _, _, _)
ScanUp(v, t, pi, vp) ==
    IF StrLess(v[t[pi + 1]], vp) THEN ScanUp(v, t, pi + 1, vp) ELSE pi + 1

\* do { --pj; } while (vp < v[*pj])
RECURSIVE ScanDown(_, _, _, _)
ScanDown(v, t, pj, vp) ==
    IF StrLess(vp, v[t[pj - 1]]) THEN ScanDown(v, t, pj - 1, vp) ELSE pj - 1

\* the for (;;) loop of the partition, from the two scans on: pi and pj are
\* where they stopped; yields the positions and the final pi
RECURSIVE PartitionLoop(_, _, _, _, _)
RECURSIVE PartitionStep(_, _, _, _, _)
PartitionStep(v, t, pi, pj, vp) ==
    IF pi >= pj THEN [t |-> t, pi |-> pi]
    ELSE PartitionLoop(v, Swap(t, pi, pj), pi, pj, vp)

PartitionLoop(v, t, pi, pj, vp) ==
    PartitionStep(v, t, ScanUp(v, t, pi, vp), ScanDown(v, t, pj, vp), vp)

\* if (v[t[a]] < v[t[b]]) INTP_SWAP(t[a], t[b])
SwapIfLess(v, t, a, b) == IF StrLess(v[t[a]], v[t[b]]) THEN Swap(t, a, b) ELSE t

\* INTP_SWAP(*pi, *pk), pk = pr - 1: the pivot goes to where the scans met
PlacePivot(r, pr) == [t |-> Swap(r.t, r.pi, pr - 1), pi |-> r.pi]

\* the partition once the median of three stands at pm: the pivot vp = v[*pm]
\* is parked at pr - 1 and the scans run from pl and pr - 1
PartitionAround(v, t, pl, pr, pm) ==
    PlacePivot(PartitionLoop(v, Swap(t, pm, pr - 1), pl, pr - 1, v[t[pm]]), pr)

\* the median of three of t[pl], t[pm], t[pr], left at pm
MedianOfThree(v, t, pl, pr, pm) ==
    SwapIfLess(v, SwapIfLess(v, SwapIfLess(v, t, pm, pl), pr, pm), pm, pl)

\* one quicksort partition of t[pl..pr]; yields the positions and the pivot's place
Partition(v, t, pl, pr) ==
    PartitionAround(v, MedianOfThree(v, t, pl, pr, pl + ((pr - pl) \div 2)),
                    pl, pr, pl + ((pr - pl) \div 2))

\* while (pj > pl && vp < v[*pk]) { *pj-- = *pk--; }  *pj = vi;
RECURSIVE InsertAt(_, _, _, _, _)
InsertAt(v, t, pl, pj, vi) ==
    IF pj > pl /\ StrLess(v[vi], v[t[pj - 1]])
    THEN InsertAt(v, [t EXCEPT ![pj] = t[pj - 1]], pl, pj - 1, vi)
    ELSE [t EXCEPT ![pj] = vi]

\* for (pi = pl + 1; pi <= pr; ++pi) { insert *pi into t[pl..pi-1] }: the
\* insertion sort of t[pl..pr]; s is the loop's state, the positions s.t and
\* the cursor s.pi
RECURSIVE InsertionLoop(_, _, _, _)
InsertionLoop(v, s, pl, pr) ==
    IF s.pi > pr THEN s.t
    ELSE InsertionLoop(v, [t  |-> InsertAt(v, s.t, pl, s.pi, s.t[s.pi]),
                           pi |-> s.pi + 1], pl, pr)

InsertionSort(v, t, pl, pr) == InsertionLoop(v, [t |-> t, pi |-> pl + 1], pl, pr)

\* the sift-down loop of npy_aheapsort on a[1..n], a being t[off+1..], once
\* j is the larger child of i
RECURSIVE SiftDown(_, _, _, _, _, _, _)
RECURSIVE SiftStep(_, _, _, _, _, _, _)
SiftStep(v, t, off, n, i, j, tmp) ==
    IF StrLess(v[tmp], v[t[off + j]])
    THEN SiftDown(v, [t EXCEPT ![off + i] = t[off + j]], off, n, j, j + j, tmp)
    ELSE [t EXCEPT ![off + i] = tmp]

\* for (...; j <= n;) { if (j < n && a[j] < a[j+1]) ++j; ... }  a[i] = tmp;
SiftDown(v, t, off, n, i, j, tmp) ==
    IF j > n THEN [t EXCEPT ![off + i] = tmp]
    ELSE SiftStep(v, t, off, n, i,
                  IF j < n /\ StrLess(v[t[off + j]], v[t[off + j + 1]]) THEN j + 1 ELSE j,
                  tmp)

\* for (l = n >> 1; l > 0; --l): build the heap; s is the loop's state
RECURSIVE Heapify(_, _, _, _)
Heapify(v, s, off, n) ==
    IF s.l <= 0 THEN s.t
    ELSE Heapify(v, [t |-> SiftDown(v, s.t, off, n, s.l, 2 * s.l, s.t[off + s.l]),
                     l |-> s.l - 1], off, n)

\* for (; n > 1;): move the maximum to the end and sift; s is the loop's state
RECURSIVE HeapExtract(_, _, _)
HeapExtract(v, s, off) ==
    IF s.n <= 1 THEN s.t
    ELSE HeapExtract(v, [t |-> SiftDown(v, [s.t EXCEPT ![off + s.n] = s.t[off + 1]],
                                        off, s.n - 1, 1, 2, s.t[off + s.n]),
                         n |-> s.n - 1], off)

\* npy_aheapsort(vec, pl, pr - pl + 1, arr)
npy_aheapsort(v, t, pl, pr) ==
    HeapExtract(v, [t |-> Heapify(v, [t |-> t, l |-> (pr - pl + 1) \div 2], pl - 1, pr - pl + 1),
                    n |-> pr - pl + 1], pl - 1)

\* npy_aquicksort from the top of its while (1) loop.  q is the state of the
\* loop: the positions q.t, the range q.pl..q.pr, the depth budget q.cdepth and
\* q.stack, the ranges pushed, each with the budget it was pushed with.
\* QuickInner is the loop body after the depth check:
\* while ((pr - pl) > SMALL_QUICKSORT) { partition }, the insertion sort of
\* the range left, and stack_pop.
RECURSIVE QuickLoop(_, _)
RECURSIVE QuickInner(_, _)
RECURSIVE QuickPush(_, _, _)

\* stack_pop: the sort ends on an empty stack, or goes on with the popped range
StackPop(v, t, stack) ==
    IF stack = <<>> THEN t
    ELSE QuickLoop(v, [t |-> t, pl |-> stack[Len(stack)].pl, pr |-> stack[Len(stack)].pr,
                       cdepth |-> stack[Len(stack)].cdepth,
                       stack |-> SubSeq(stack, 1, Len(stack) - 1)])

\* after a partition p of q.pl..q.pr: push the larger side, go on with the smaller
QuickPush(v, p, q) ==
    IF p.pi - q.pl < q.pr - p.pi
    THEN QuickInner(v, [t |-> p.t, pl |-> q.pl, pr |-> p.pi - 1, cdepth |-> q.cdepth - 1,
                        stack |-> Append(q.stack, [pl |-> p.pi + 1, pr |-> q.pr,
                                                   cdepth |-> q.cdepth - 1])])
    ELSE QuickInner(v, [t |-> p.t, pl |-> p.pi + 1, pr |-> q.pr, cdepth |-> q.cdepth - 1,
                        stack |-> Append(q.stack, [pl |-> q.pl, pr |-> p.pi - 1,
                                                   cdepth |-> q.cdepth - 1])])

QuickInner(v, q) ==
    IF q.pr - q.pl > SMALL_QUICKSORT
    THEN QuickPush(v, Partition(v, q.t, q.pl, q.pr), q)
    ELSE StackPop(v, InsertionSort(v, q.t, q.pl, q.pr), q.stack)

QuickLoop(v, q) ==
    IF q.cdepth < 0 THEN StackPop(v, npy_aheapsort(v, q.t, q.pl, q.pr), q.stack)
    ELSE QuickInner(v, q)

\* faulty variant: the positions are returned as they came
argsort_unsorted(v) == [i \in 1..Len(v) |-> i]

\* ndarray.argsort(kind='quicksort') on an object array of str
argsort(v) ==
    IF Len(v) = 0 THEN <<>>
    ELSE QuickLoop(v, [t |-> [i \in 1..Len(v) |-> i], pl |-> 1, pr |-> Len(v),
                       cdepth |-> npy_get_msb(Len(v)) * 2, stack |-> <<>>])

isna(x) == x = Null

\* np.nonzero(mask)[0] (want = TRUE) and idx[~mask] (want = FALSE) over the
\* first n items: the positions whose isna is want, ascending
RECURSIVE Positions(_, _, _)
Positions(items, want, n) ==
    IF n = 0 THEN <<>>
    ELSE IF isna(items[n]) = want THEN Append(Positions(items, want, n - 1), n)
    ELSE Positions(items, want, n - 1)

\* items[idx], idx[sorter]: the elements of a at the positions idx
Take(a, idx) == [i \in 1..Len(idx) |-> a[idx[i]]]

\* faulty variant: na_position='first'
NargsortJoin_na_first(items, non_nan_idx, nan_idx) ==
    nan_idx \o Take(non_nan_idx, argsort(Take(items, non_nan_idx)))

\* indexer = non_nan_idx[non_nans.argsort(kind)], then np.concatenate([indexer, nan_idx])
NargsortJoin(items, non_nan_idx, nan_idx) ==
    Take(non_nan_idx, argsort(Take(items, non_nan_idx))) \o nan_idx

\* pandas.core.sorting.nargsort(items, kind='quicksort', ascending=True, na_position='last')
nargsort(items) ==
    NargsortJoin(items, Positions(items, FALSE, Len(items)), Positions(items, TRUE, Len(items)))

\* the frame's rows, with their labels, at the positions indexer
TakeRows(df, indexer) == [index |-> Take(df.index, indexer), rows |-> Take(df.rows, indexer)]

\* The frame left in the order of its rows: what the output would be without
\* the sort of lines 161 and 165.
sort_values_unsorted(df) == df

\* df.sort_values('start_time')
sort_values(df) ==
    TakeRows(df, nargsort([i \in 1..Len(df.rows) |-> df.rows[i].start_time]))

\* a cell as to_csv writes it: nothing for None
CsvCell(x) == IF x = Null THEN "" ELSE x

\* df.to_csv(path): the header line, then one line per row, the label first
to_csv(df, cols) ==
    <<(<<"">> \o cols)>> \o
    [i \in 1..Len(df.rows) |->
        <<ToString(df.index[i])>> \o [c \in 1..Len(cols) |-> CsvCell(df.rows[i][cols[c]])]]

----------------------------------------------------------------------------
(* Inputs *)

Location == [latitudeE7 |-> "356812360", longitudeE7 |-> "1397671250"]

\* the duration sub-mapping of a record that starts at t (no startTimestamp for Null)
Duration(t) ==
    IF t = Null THEN [endTimestamp |-> T3]
    ELSE [startTimestamp |-> t, endTimestamp |-> T3]

ActivityObj(t, d) ==
    [activitySegment |-> [startLocation |-> Location, endLocation |-> Location,
                          duration |-> Duration(t), distance |-> d,
                          activityType |-> "WALKING"]]

VisitObj(t, n) ==
    [placeVisit |-> [location |-> Location @@ [placeId |-> "ChIJ", address |-> "1-1", name |-> n],
                     duration |-> Duration(t)]]

\* the records the files of the exhaustive family are made of
RecordChoices ==
    { ActivityObj(T2, "100"), ActivityObj(T1, "100"), ActivityObj(T1, "200"),
      ActivityObj(Null, "300"),
      VisitObj(T2, "Home"), VisitObj(T1, "Work"), VisitObj(Null, "Cafe"),
      [activitySegment |-> [distance |-> "100"]],
      [parseError |-> EmptyMap] }

SeqsUpTo(S, n) == UNION { [1..k -> S] : k \in 0..n }

\* the sequence s cut into Len(cuts) + 1 consecutive files at the positions cuts
Split(s, cuts) ==
    [j \in 1..(Len(cuts) + 1) |->
        SubSeq(s, (IF j = 1 THEN 0 ELSE cuts[j - 1]) + 1,
                  IF j = Len(cuts) + 1 THEN Len(s) ELSE cuts[j])]

\* every way to cut n records into 1..MaxFiles consecutive files
Cuts(n) ==
    UNION { { c \in [1..(m - 1) -> 0..n] : \A j \in 1..(m - 2) : c[j] <= c[j + 1] }
            : m \in 1..MaxFiles }

\* every directory of at most MaxFiles files holding at most MaxRecords records
ExhaustiveDirs ==
    {<<>>} \cup
    UNION { { Split(s, c) : c \in Cuts(Len(s)) } : s \in SeqsUpTo(RecordChoices, MaxRecords) }

\* s repeated n times
RECURSIVE Repeat(_, _)
Repeat(s, n) == IF n = 0 THEN <<>> ELSE s \o Repeat(s, n - 1)

\* the records the files of the bulk family are made of
BulkChoices ==
    { ActivityObj(T1, "100"), ActivityObj(T1, "200"), ActivityObj(T2, "100"),
      ActivityObj(Null, "300"), VisitObj(T1, "Work") }

\* one-file directories: a base sequence of at most BulkBase records repeated
\* BulkRepeat times
BulkDirs ==
    { <<Repeat(s, BulkRepeat)>> : s \in SeqsUpTo(BulkChoices, BulkBase) \ {<<>>} }

\* S, and every map of S with key k added, bound to a value of V
Extend(S, k, V) == S \cup { m @@ (k :> v) : m \in S, v \in V }

\* every activitySegment value: each sub-mapping and each leaf present or not
SegmentShapes ==
    LET loc == Extend(Extend({EmptyMap}, "latitudeE7", {"356812360"}), "longitudeE7", {"1397671250"})
        dur == Extend(Extend({EmptyMap}, "startTimestamp", {T1}), "endTimestamp", {T2})
    IN  Extend(Extend(Extend(Extend(Extend({EmptyMap},
            "startLocation", loc), "endLocation", loc), "duration", dur),
            "distance", {"100"}), "activityType", {"WALKING"})

\* every placeVisit value
VisitShapes ==
    LET loc == Extend(Extend(Extend(Extend(Extend({EmptyMap},
                   "latitudeE7", {"356812360"}), "longitudeE7", {"1397671250"}),
                   "placeId", {"ChIJ"}), "address", {"1-1"}), "name", {"Home"})
        dur == Extend(Extend({EmptyMap}, "startTimestamp", {T1}), "endTimestamp", {T2})
    IN  Extend(Extend({EmptyMap}, "location", loc), "duration", dur)

\* raw records of every shape: one recognized key with every value shape, and
\* every set of top-level keys among the two recognized ones and two others
RecordShapes ==
    { [activitySegment |-> seg] : seg \in SegmentShapes } \cup
    { [placeVisit |-> v] : v \in VisitShapes } \cup
    Extend(Extend(Extend(Extend({EmptyMap},
        "activitySegment", {ActivityObj(T1, "100").activitySegment}),
        "placeVisit", {VisitObj(T1, "Home").placeVisit}),
        "parseError", {EmptyMap}), "unknown", {EmptyMap})

\* directories of one file holding one record
SingleRecordDirs == { << <<obj>> >> : obj \in RecordShapes }

\* every order in which the files of a directory may be enumerated
Enumerations(fs) ==
    LET n == Len(fs)
    IN  { [i \in 1..n |-> fs[p[i]]] :
            p \in { q \in [1..n -> 1..n] : \A a, b \in 1..n : q[a] = q[b] => a = b } }

----------------------------------------------------------------------------
(* main *)

\* the directory d with content written to the file name
WriteFile(d, name, content) ==
    [f \in DOMAIN d \cup {name} |-> IF f = name THEN content ELSE d[f]]

Init ==
    /\ \/ files \in ExhaustiveDirs
       \/ files \in BulkDirs
       \/ files \in SingleRecordDirs
    /\ pos = 0
    /\ activity_df = EmptyFrame
    /\ visit_df = EmptyFrame
    /\ pc = "loop"
    /\ exit_status = Null
    /\ stderr = Null
    /\ outdir = EmptyMap
    /\ earlier = <<>>

\* one iteration of main's loop over glob's files: load_monthly_json on the next
\* file, which ends the process with status 1 at the first record it cannot
\* extract, then the two concats
LoadMonthlyJson ==
    /\ pc = "loop"
    /\ pos < Len(files)
    /\ LET monthly_data == load_monthly_json(files[pos + 1])
       IN  IF monthly_data.ok
           THEN /\ activity_df' = concat(activity_df, monthly_data.activity)
                /\ visit_df' = concat(visit_df, monthly_data.visit)
                /\ pos' = pos + 1
                /\ UNCHANGED <<pc, exit_status, stderr>>
           ELSE /\ pc' = "exited"
                /\ exit_status' = "1"
                /\ stderr' = monthly_data.error
                /\ UNCHANGED <<activity_df, visit_df, pos>>
    /\ UNCHANGED <<files, outdir, earlier>>

\* after the loop: sort, reset the index and write activity.csv
WriteActivity ==
    /\ pc = "loop"
    /\ pos = Len(files)
    /\ activity_df' = reset_index(sort_values(activity_df))
    /\ outdir' = WriteFile(outdir, "activity.csv", to_csv(activity_df', ACTIVITY_COLS))
    /\ pc' = "sort_visit"
    /\ UNCHANGED <<files, pos, visit_df, exit_status, stderr, earlier>>

\* sort, reset the index and write visit.csv; main returns
WriteVisit ==
    /\ pc = "sort_visit"
    /\ visit_df' = reset_index(sort_values(visit_df))
    /\ outdir' = WriteFile(outdir, "visit.csv", to_csv(visit_df', VISIT_COLS))
    /\ pc' = "done"
    /\ exit_status' = "0"
    /\ UNCHANGED <<files, pos, activity_df, stderr, earlier>>

\* the converter is started a second time on the same input directory, with a
\* fresh output directory; glob may yield the files in another order
Rerun ==
    /\ pc \in {"done", "exited"}
    /\ earlier = <<>>
    /\ earlier' = <<[files |-> files, outdir |-> outdir, exit_status |-> exit_status]>>
    /\ files' \in Enumerations(files)
    /\ pos' = 0
    /\ activity_df' = EmptyFrame
    /\ visit_df' = EmptyFrame
    /\ pc' = "loop"
    /\ exit_status' = Null
    /\ stderr' = Null
    /\ outdir' = EmptyMap

Next == LoadMonthlyJson \/ WriteActivity \/ WriteVisit \/ Rerun

Spec == Init /\ [][Next]_vars

----------------------------------------------------------------------------
(* Properties *)

RecognizedKeys == {"activitySegment", "placeVisit"}

\* the record has 0 or at least 2 top-level keys, or one that is not recognized
InvalidShape(obj) ==
    Cardinality(DOMAIN obj) # 1 \/ DOMAIN obj \cap RecognizedKeys = {}

IsActivityRecord(obj) == DOMAIN obj = {"activitySegment"}
IsVisitRecord(obj) == DOMAIN obj = {"placeVisit"}

\* the sub-mappings the extractor looks up, in the order it does
ActivitySubMappings == <<"startLocation", "endLocation", "duration">>
VisitSubMappings == <<"location", "duration">>

Range(s) == { s[i] : i \in 1..Len(s) }

\* the first key of subs that m lacks, in quotes as print(e) shows it; Null if none
FirstMissing(m, subs) ==
    IF Range(subs) \subseteq DOMAIN m THEN Null
    ELSE LET k == CHOOSE i \in 1..Len(subs) :
                      /\ subs[i] \notin DOMAIN m
                      /\ \A j \in 1..(i - 1) : subs[j] \in DOMAIN m
         IN  IF subs[k] = "startLocation" THEN "'startLocation'"
             ELSE IF subs[k] = "endLocation" THEN "'endLocation'"
             ELSE IF subs[k] = "location" THEN "'location'"
             ELSE "'duration'"

\* the value under leaf in the sub-mapping sub of m; null when either is absent
Nested(m, sub, leaf) == IF sub \in DOMAIN m THEN Get(m[sub], leaf) ELSE Null

\* the row the specification gives for an activitySegment value
ExpectedActivityRow(seg) ==
    [timeline_type   |-> "activity",
     start_latitude  |-> Nested(seg, "startLocation", "latitudeE7"),
     start_longitude |-> Nested(seg, "startLocation", "longitudeE7"),
     end_latitude    |-> Nested(seg, "endLocation", "latitudeE7"),
     end_longitude   |-> Nested(seg, "endLocation", "longitudeE7"),
     start_time      |-> Nested(seg, "duration", "startTimestamp"),
     end_time        |-> Nested(seg, "duration", "endTimestamp"),
     distance        |-> Get(seg, "distance"),
     activity_type   |-> Get(seg, "activityType")]

\* the row the specification gives for a placeVisit value
ExpectedVisitRow(visit) ==
    [timeline_type      |-> "visit",
     location_latitude  |-> Nested(visit, "location", "latitudeE7"),
     location_longitude |-> Nested(visit, "location", "longitudeE7"),
     place_id           |-> Nested(visit, "location", "placeId"),
     address            |-> Nested(visit, "location", "address"),
     name               |-> Nested(visit, "location", "name"),
     start_time         |-> Nested(visit, "duration", "startTimestamp"),
     end_time           |-> Nested(visit, "duration", "endTimestamp")]

\* the input is one file holding one record, and the loop has taken that file
SoleRecordLoaded ==
    /\ Len(files) = 1
    /\ Len(files[1]) = 1
    /\ (pos = 1 \/ pc = "exited")

SoleRecord == files[1][1]

\* the run ended in the KeyError handler: status 1, nothing written
ExitedWithoutOutput ==
    /\ pc = "exited"
    /\ exit_status = "1"
    /\ stderr # Null
    /\ DOMAIN outdir = {}

\* exactly the one row r, with exactly the columns cols, is held by frame df
HoldsOnly(df, r, cols) ==
    /\ df.rows = <<r>>
    /\ DOMAIN df.rows[1] = Range(cols)

\* C1: a record with 0 keys, with 2 or more keys (a recognized one among them or
\* not), or with one unrecognized key makes load_timeline_obj fail with the
\* record-shape error and yields no row: no file holding such a record is ever
\* aggregated, and the run on a file holding just that record ends with one of
\* the two record-shape messages, status 1 and both collections empty.
C1_InvalidShapeFails ==
    /\ \A k \in 1..pos : \A i \in 1..Len(files[k]) : ~InvalidShape(files[k][i])
    /\ (SoleRecordLoaded /\ InvalidShape(SoleRecord)) =>
          /\ ExitedWithoutOutput
          /\ stderr = (IF Cardinality(DOMAIN SoleRecord) > 1
                       THEN MsgMoreThanOneKey ELSE MsgUnexpectedKey)
          /\ activity_df = EmptyFrame
          /\ visit_df = EmptyFrame

\* a record with two keys, activitySegment among them, has been refused
C1_Witness ==
    /\ SoleRecordLoaded
    /\ Cardinality(DOMAIN SoleRecord) >= 2
    /\ "activitySegment" \in DOMAIN SoleRecord
    /\ pc = "exited"

\* the activity row of the specification has been produced from the sole record
ActivityRowProduced ==
    /\ pc # "exited"
    /\ HoldsOnly(activity_df, ExpectedActivityRow(SoleRecord.activitySegment), ACTIVITY_COLS)
    /\ Len(ACTIVITY_COLS) = 9
    /\ visit_df.rows = <<>>

\* C3 as stated: every record whose single key is activitySegment yields a row
\* with timeline_type "activity" and the 9 fields, anything missing being null.
C3_EverySegmentYieldsRow ==
    (SoleRecordLoaded /\ IsActivityRecord(SoleRecord)) => ActivityRowProduced

\* C3 amended: every record whose single key is activitySegment and whose
\* segment holds the startLocation, endLocation and duration sub-mappings yields
\* a row with timeline_type "activity" and exactly the 9 fields, each leaf that
\* is missing being null.
C3_SegmentWithSubMappingsYieldsRow ==
    (/\ SoleRecordLoaded
     /\ IsActivityRecord(SoleRecord)
     /\ Range(ActivitySubMappings) \subseteq DOMAIN SoleRecord.activitySegment)
    => ActivityRowProduced

\* a row has come out of a segment with empty sub-mappings and no distance
C3_Witness ==
    /\ SoleRecordLoaded
    /\ IsActivityRecord(SoleRecord)
    /\ Range(ActivitySubMappings) \subseteq DOMAIN SoleRecord.activitySegment
    /\ SoleRecord.activitySegment["startLocation"] = EmptyMap
    /\ "longitudeE7" \in DOMAIN SoleRecord.activitySegment["endLocation"]
    /\ "distance" \notin DOMAIN SoleRecord.activitySegment
    /\ Len(activity_df.rows) = 1
    /\ activity_df.rows[1].start_latitude = Null
    /\ activity_df.rows[1].end_longitude # Null

\* the visit row of the specification has been produced from the sole record
VisitRowProduced ==
    /\ pc # "exited"
    /\ HoldsOnly(visit_df, ExpectedVisitRow(SoleRecord.placeVisit), VISIT_COLS)
    /\ Len(VISIT_COLS) = 8
    /\ activity_df.rows = <<>>

\* C4 as stated: every record whose single key is placeVisit yields a row with
\* timeline_type "visit" and the 8 fields, each absent field being null.
C4_EveryVisitYieldsRow ==
    (SoleRecordLoaded /\ IsVisitRecord(SoleRecord)) => VisitRowProduced

\* C4 amended: every record whose single key is placeVisit and whose visit
\* holds the location and duration sub-mappings yields a row with
\* timeline_type "visit" and exactly the 8 fields, the five location fields
\* from location and the two times from duration, each absent leaf being null.
C4_VisitWithSubMappingsYieldsRow ==
    (/\ SoleRecordLoaded
     /\ IsVisitRecord(SoleRecord)
     /\ Range(VisitSubMappings) \subseteq DOMAIN SoleRecord.placeVisit)
    => VisitRowProduced

\* a row has come out of a visit whose location has an address but no name
C4_Witness ==
    /\ SoleRecordLoaded
    /\ IsVisitRecord(SoleRecord)
    /\ Range(VisitSubMappings) \subseteq DOMAIN SoleRecord.placeVisit
    /\ "address" \in DOMAIN SoleRecord.placeVisit["location"]
    /\ "name" \notin DOMAIN SoleRecord.placeVisit["location"]
    /\ Len(visit_df.rows) = 1
    /\ visit_df.rows[1].name = Null
    /\ visit_df.rows[1].address # Null

\* C9: a record with one recognized key whose value lacks a required
\* sub-mapping yields no row of nulls: the run ends in the KeyError handler,
\* reporting the first key the lookup missed, with status 1 and no output.
C9_MissingSubMappingExits ==
    (/\ SoleRecordLoaded
     /\ \/ /\ IsActivityRecord(SoleRecord)
           /\ FirstMissing(SoleRecord.activitySegment, ActivitySubMappings) # Null
        \/ /\ IsVisitRecord(SoleRecord)
           /\ FirstMissing(SoleRecord.placeVisit, VisitSubMappings) # Null)
    => /\ ExitedWithoutOutput
       /\ stderr = (IF IsActivityRecord(SoleRecord)
                    THEN FirstMissing(SoleRecord.activitySegment, ActivitySubMappings)
                    ELSE FirstMissing(SoleRecord.placeVisit, VisitSubMappings))
       /\ activity_df = EmptyFrame
       /\ visit_df = EmptyFrame

\* a segment with both locations and every leaf but no duration has ended the run
C9_Witness ==
    /\ SoleRecordLoaded
    /\ IsActivityRecord(SoleRecord)
    /\ DOMAIN SoleRecord.activitySegment =
           {"startLocation", "endLocation", "distance", "activityType"}
    /\ pc = "exited"
    /\ stderr = "'duration'"

----------------------------------------------------------------------------
(* Properties of the aggregation *)

\* the records of the files fs, in encounter order
RECURSIVE Flatten(_)
Flatten(fs) == IF fs = <<>> THEN <<>> ELSE Head(fs) \o Flatten(Tail(fs))

\* the extractor fails on the record
Fails(obj) == ~load_timeline_obj(obj).ok

\* the extractor fails on some record of the file
FailsIn(file) == \E i \in 1..Len(file) : Fails(file[i])

\* what print(e) shows for the first record of the file the extractor fails on
FirstFailure(file) ==
    load_timeline_obj(file[CHOOSE i \in 1..Len(file) :
                               /\ Fails(file[i])
                               /\ \A j \in 1..(i - 1) : ~Fails(file[j])]).error

\* C2: if the extractor fails on a record of an input file, the run ends at
\* once with status 1 and writes neither file: no file is aggregated once one
\* has failed, the exit happens in the first failing file (whatever number of
\* files were aggregated before it) with that file's first failure reported,
\* and anything is written only when every record of every file was extracted.
C2_FailFastNoOutput ==
    /\ \A k \in 1..pos : ~FailsIn(files[k])
    /\ pc = "exited" =>
          /\ exit_status = "1"
          /\ DOMAIN outdir = {}
          /\ pos < Len(files)
          /\ FailsIn(files[pos + 1])
          /\ stderr = FirstFailure(files[pos + 1])
    /\ (\E k \in 1..Len(files) : FailsIn(files[k])) =>
          /\ DOMAIN outdir = {}
          /\ pc \in {"loop", "exited"}
          /\ exit_status \in {Null, "1"}
    /\ DOMAIN outdir # {} => pos = Len(files)

\* the run has ended with status 1 on the second file, the rows of the first
\* one aggregated in memory and no output file written
C2_Witness ==
    /\ pc = "exited"
    /\ exit_status = "1"
    /\ pos = 1
    /\ Len(files) = 2
    /\ Len(activity_df.rows) + Len(visit_df.rows) >= 1
    /\ DOMAIN outdir = {}

\* the cells of the column called name in the csv lines, header excluded
Column(csv, name) ==
    LET c == CHOOSE k \in 1..Len(csv[1]) : csv[1][k] = name
    IN  [i \in 1..(Len(csv) - 1) |-> csv[i + 1][c]]

\* start_time a is greater than start_time b (cells of a csv; a row without
\* start_time has an empty cell and is not compared)
Greater(a, b) == a # "" /\ b # "" /\ StrLess(b, a)

\* C5: the rows written to activity.csv are in ascending start_time order and
\* so are, independently, the rows written to visit.csv: of two adjacent rows
\* the earlier one's start_time is not greater than the later one's.  A
\* successful run has written both files.
C5_OutputsAscending ==
    /\ \A f \in DOMAIN outdir :
          \A i \in 1..(Len(outdir[f]) - 2) :
              ~Greater(Column(outdir[f], "start_time")[i],
                       Column(outdir[f], "start_time")[i + 1])
    /\ pc = "done" => DOMAIN outdir = {"activity.csv", "visit.csv"}

\* a run over two files, the later start_time in the first one, for both kinds,
\* has written both outputs
C5_Witness ==
    /\ pc = "done"
    /\ Len(files) = 2
    /\ files[1] = <<ActivityObj(T2, "100")>>
    /\ files[2] = <<ActivityObj(T1, "100")>>
    /\ Column(outdir["activity.csv"], "start_time") = <<T1, T2>>

\* the rows of the frame whose start_time is t, in the frame's order
RowsAt(df, t) ==
    LET At(r) == r.start_time = t
    IN  SelectSeq(df.rows, At)

\* the sorted frame holds the rows of each start_time in the order before has them
KeepsEncounterOrder(before, after) ==
    \A t \in { before.rows[i].start_time : i \in 1..Len(before.rows) } :
        RowsAt(after, t) = RowsAt(before, t)

\* C6: sort stability: in each output, the records sharing a start_time are in
\* the order in which they were encountered.
C6_SortKeepsEncounterOrder ==
    [][/\ (pc = "loop" /\ pc' = "sort_visit") => KeepsEncounterOrder(activity_df, activity_df')
       /\ (pc = "sort_visit" /\ pc' = "done") => KeepsEncounterOrder(visit_df, visit_df')]_vars

\* both runs on the input directory have ended
BothRunsEnded == earlier # <<>> /\ pc \in {"done", "exited"}

\* C7 as stated: two runs on the same input directory leave identical outputs,
\* whatever the order in which each run enumerated the files.
C7_IdenticalOutputs ==
    BothRunsEnded => (outdir = earlier[1].outdir /\ exit_status = earlier[1].exit_status)

\* the number of lines of the csv that are the cells line
Count(csv, line) == Cardinality({ i \in 1..Len(csv) : csv[i] = line })

\* the line without its first cell, the row index
Data(line) == SubSeq(line, 2, Len(line))

\* the csv lines without the row-index column
DataLines(csv) == [i \in 1..Len(csv) |-> Data(csv[i])]

\* no two rows of the csv have the same start_time cell
NoTies(csv) ==
    \A i, j \in 1..(Len(csv) - 1) :
        Column(csv, "start_time")[i] = Column(csv, "start_time")[j] => i = j

\* C7 amended: two runs on the same input directory end with the same status
\* and write the same files, each with the same lines up to the order of the
\* rows that share a start_time (the same index and start_time columns, the same
\* rows as often); the outputs are identical when both runs enumerated the
\* files in the same order, or when no two rows of a file share a start_time.
C7_IdenticalUpToTies ==
    BothRunsEnded =>
       /\ exit_status = earlier[1].exit_status
       /\ DOMAIN outdir = DOMAIN earlier[1].outdir
       /\ \A f \in DOMAIN outdir :
            /\ Len(outdir[f]) = Len(earlier[1].outdir[f])
            /\ outdir[f][1] = earlier[1].outdir[f][1]
            /\ Column(outdir[f], "") = Column(earlier[1].outdir[f], "")
            /\ Column(outdir[f], "start_time") = Column(earlier[1].outdir[f], "start_time")
            /\ \A i \in 1..Len(outdir[f]) :
                  Count(DataLines(outdir[f]), Data(outdir[f][i])) =
                  Count(DataLines(earlier[1].outdir[f]), Data(outdir[f][i]))
            /\ (files = earlier[1].files \/ NoTies(outdir[f])) =>
                  outdir[f] = earlier[1].outdir[f]

\* the second run enumerated two files in the other order and wrote the same
\* two activity rows, of different start_times
C7_Witness ==
    /\ BothRunsEnded
    /\ pc = "done"
    /\ Len(files) = 2
    /\ files # earlier[1].files
    /\ Len(outdir["activity.csv"]) = 3
    /\ NoTies(outdir["activity.csv"])
    /\ outdir = earlier[1].outdir

\* the records among objs with the top-level key key, in order
OfKind(objs, key) ==
    LET Has(obj) == key \in DOMAIN obj
    IN  SelectSeq(objs, Has)

\* C8: while the loop runs, and after any number of files, the activities
\* collection is the sequence of rows extracted from the activitySegment
\* records of the files processed, and the visits collection that of their
\* placeVisit records, in encounter order, labelled 0, 1, ...: every record is
\* in exactly one collection, that of its kind, none dropped or duplicated (and
\* so the rows accumulated before a file are a prefix of those after it).
C8_CollectionsInEncounterOrder ==
    pc = "loop" =>
       LET seen == Flatten(SubSeq(files, 1, pos))
           acts == OfKind(seen, "activitySegment")
           vis  == OfKind(seen, "placeVisit")
       IN  /\ activity_df.rows = [i \in 1..Len(acts) |-> load_activity(acts[i]).row]
           /\ visit_df.rows = [i \in 1..Len(vis) |-> load_visit(vis[i]).row]
           /\ activity_df.index = [i \in 1..Len(acts) |-> i - 1]
           /\ visit_df.index = [i \in 1..Len(vis) |-> i - 1]
           /\ Len(activity_df.rows) + Len(visit_df.rows) = Len(seen)
           /\ \A i \in 1..Len(activity_df.rows) : activity_df.rows[i].timeline_type = "activity"
           /\ \A i \in 1..Len(visit_df.rows) : visit_df.rows[i].timeline_type = "visit"

\* two files have been processed, each holding an activity of another distance
C8_Witness ==
    /\ pc = "loop"
    /\ pos = 2
    /\ Len(files[1]) = 1
    /\ Len(files[2]) = 1
    /\ Len(activity_df.rows) = 2
    /\ activity_df.rows[1].distance # activity_df.rows[2].distance

\* C10: in each output every row without start_time comes after every row with
\* one, and the row-index column numbers the rows 0, 1, ... in the order written.
C10_NullsLastIndexInOrder ==
    \A f \in DOMAIN outdir :
        /\ \A i, j \in 1..(Len(outdir[f]) - 1) :
              (i < j /\ Column(outdir[f], "start_time")[i] = "")
                  => Column(outdir[f], "start_time")[j] = ""
        /\ \A i \in 1..(Len(outdir[f]) - 1) : Column(outdir[f], "")[i] = ToString(i - 1)

\* an activity without start_time was encountered first and written last
C10_Witness ==
    /\ pc = "done"
    /\ Flatten(files) = <<ActivityObj(Null, "300"), ActivityObj(T1, "100")>>
    /\ Column(outdir["activity.csv"], "start_time") = <<T1, "">>
    /\ Column(outdir["activity.csv"], "distance") = <<"100", "300">>
    /\ Column(outdir["activity.csv"], "") = <<"0", "1">>

====
